---- MODULE Spec2Model ----
(***************************************************************************)
(* A model of GFFFile.py: OrderedDictionary, GFFAttributes, GFFID,         *)
(* GFFIterator and GFFFile.  Strings are sequences of byte codes, so that  *)
(* splitting, stripping and percent-encoding are computed character by     *)
(* character.                                                              *)
(***************************************************************************)
EXTENDS Integers, Sequences, FiniteSets, TLC

(***************************************************************************)
(* Characters and strings                                                  *)
(***************************************************************************)

\* The byte code of a character written as a one-character string.
Ord(c) ==
  CASE c = "\t" -> 9
    [] c = "\n" -> 10
    [] c = " " -> 32
    [] c = "!" -> 33
    [] c = "#" -> 35
    [] c = "$" -> 36
    [] c = "%" -> 37
    [] c = "*" -> 42
    [] c = "+" -> 43
    [] c = "," -> 44
    [] c = "-" -> 45
    [] c = "." -> 46
    [] c = "0" -> 48
    [] c = "2" -> 50
    [] c = "3" -> 51
    [] c = ":" -> 58
    [] c = ";" -> 59
    [] c = "=" -> 61
    [] c = "?" -> 63
    [] c = "@" -> 64
    [] c = "A" -> 65
    [] c = "B" -> 66
    [] c = "C" -> 67
    [] c = "D" -> 68
    [] c = "N" -> 78
    [] c = "O" -> 79
    [] c = "P" -> 80
    [] c = "^" -> 94
    [] c = "_" -> 95
    [] c = "a" -> 97
    [] c = "b" -> 98
    [] c = "c" -> 99
    [] c = "e" -> 101
    [] c = "f" -> 102
    [] c = "g" -> 103
    [] c = "i" -> 105
    [] c = "l" -> 108
    [] c = "m" -> 109
    [] c = "n" -> 110
    [] c = "o" -> 111
    [] c = "r" -> 114
    [] c = "s" -> 115
    [] c = "t" -> 116
    [] c = "v" -> 118
    [] c = "x" -> 120
    [] c = "y" -> 121
    [] c = "|" -> 124

\* A string literal, written as a tuple of one-character strings.
Str(t) == [i \in 1..Len(t) |-> Ord(t[i])]

Range(s) == {s[i] : i \in 1..Len(s)}

\* s[a..b] with Python's clamping of an empty slice
Slice(s, a, b) == IF a > b THEN <<>> ELSE SubSeq(s, a, b)

RECURSIVE Concat(_)
\* ''.join(parts)
Concat(parts) ==
  IF parts = <<>> THEN <<>> ELSE Head(parts) \o Concat(Tail(parts))

RECURSIVE Join(_, _)
\* sep.join(items)
Join(sep, items) ==
  IF items = <<>> THEN <<>>
  ELSE IF Len(items) = 1 THEN items[1]
  ELSE items[1] \o sep \o Join(sep, Tail(items))

\* Index of the first occurrence of character c in s, 0 when there is none
IndexOf(s, c) ==
  IF c \in Range(s)
    THEN CHOOSE i \in 1..Len(s) : s[i] = c /\ \A j \in 1..(i-1) : s[j] # c
    ELSE 0

RECURSIVE Split(_, _)
\* s.split(c): always at least one piece
Split(s, c) ==
  LET i == IndexOf(s, c)
  IN  IF i = 0 THEN <<s>>
      ELSE <<Slice(s, 1, i-1)>> \o Split(Slice(s, i+1, Len(s)), c)

\* string.whitespace
Whitespace == {9, 10, 11, 12, 13, 32}

\* s.strip()
Strip(s) ==
  LET keep == {i \in 1..Len(s) : s[i] \notin Whitespace}
  IN  IF keep = {} THEN <<>>
      ELSE LET lo == CHOOSE i \in keep : \A j \in keep : i <= j
               hi == CHOOSE i \in keep : \A j \in keep : j <= i
           IN  SubSeq(s, lo, hi)

\* s.endswith(c) for a one-character c
EndsWith(s, c) == Len(s) > 0 /\ s[Len(s)] = c

\* s.startswith(p)
StartsWith(s, p) == Len(s) >= Len(p) /\ SubSeq(s, 1, Len(p)) = p

(***************************************************************************)
(* OrderedDictionary                                                       *)
(***************************************************************************)

\* A value no key or value of the program can be
None == "None"

\* dict[k] = v on a Python dict modelled as a function
DictPut(d, k, v) == [x \in (DOMAIN d) \cup {k} |-> IF x = k THEN v ELSE d[x]]

\* del dict[k]
DictDel(d, k) == [x \in (DOMAIN d) \ {k} |-> d[x]]

\* list.index(x), 1-based; 0 stands for ValueError
ListIndex(l, x) ==
  IF x \in Range(l)
    THEN CHOOSE i \in 1..Len(l) : l[i] = x /\ \A j \in 1..(i-1) : l[j] # x
    ELSE 0

\* del list[i], i 1-based
ListDel(l, i) == Slice(l, 1, i-1) \o Slice(l, i+1, Len(l))

\* list.insert(i, x) with a 0-based i: a negative i counts from the end and
\* the position is clamped to the list
ListInsert(l, i, x) ==
  LET n == Len(l)
      p == IF i < 0 THEN (IF i + n < 0 THEN 0 ELSE i + n)
           ELSE (IF i > n THEN n ELSE i)
  IN  Slice(l, 1, p) \o <<x>> \o Slice(l, p+1, n)

\* OrderedDictionary.__init__
ODInit == [keys |-> <<>>, dict |-> <<>>]

\* OrderedDictionary.__contains__
ODContains(d, key) == key \in Range(d.keys)

\* OrderedDictionary.__len__
ODLen(d) == Len(d.keys)

\* OrderedDictionary.keys
ODKeys(d) == d.keys

\* OrderedDictionary.__getitem__: the value, or err = "KeyError"
ODGetItem(d, key) ==
  IF key \notin Range(d.keys)
    THEN [err |-> "KeyError", val |-> None]
    ELSE IF key \notin DOMAIN d.dict
      THEN [err |-> "KeyError", val |-> None]
      ELSE [err |-> "", val |-> d.dict[key]]

\* A set that moves an updated key to the end (a plausible slip)
ODSetItemMoveToEnd(d, key, value) ==
  [keys |-> SelectSeq(d.keys, LAMBDA x : x # key) \o <<key>>,
   dict |-> DictPut(d.dict, key, value)]

\* A set that appends the key every time (a plausible slip)
ODSetItemAlwaysAppend(d, key, value) ==
  [keys |-> Append(d.keys, key), dict |-> DictPut(d.dict, key, value)]

\* OrderedDictionary.__setitem__
ODSetItem(d, key, value) ==
  [keys |-> IF key \notin Range(d.keys) THEN Append(d.keys, key) ELSE d.keys,
   dict |-> DictPut(d.dict, key, value)]

\* OrderedDictionary.__delitem__: the new dictionary and the error raised
ODDelItem(d, key) ==
  LET i == ListIndex(d.keys, key)
  IN  IF i = 0
        THEN [od |-> d, err |-> "KeyError"]
        ELSE IF key \notin DOMAIN d.dict
          \* del(self.__dict[key]) raises after the key list was changed
          THEN [od |-> [keys |-> ListDel(d.keys, i), dict |-> d.dict],
                err |-> "KeyError"]
          ELSE [od |-> [keys |-> ListDel(d.keys, i),
                        dict |-> DictDel(d.dict, key)], err |-> ""]

\* The error insert raises for a key that is already there
KeyExists == "KeyError: Key already exists"

\* An insert that stores the new value before it raises for an existing key
ODInsertOverwrite(d, i, key, value) ==
  IF key \notin Range(d.keys)
    THEN [od |-> [keys |-> ListInsert(d.keys, i, key),
                  dict |-> DictPut(d.dict, key, value)], err |-> ""]
    ELSE [od |-> [d EXCEPT !.dict = DictPut(@, key, value)],
          err |-> KeyExists]

\* OrderedDictionary.insert: the new dictionary and the error raised
ODInsert(d, i, key, value) ==
  IF key \notin Range(d.keys)
    THEN [od |-> [keys |-> ListInsert(d.keys, i, key),
                  dict |-> DictPut(d.dict, key, value)], err |-> ""]
    ELSE [od |-> d, err |-> KeyExists]

(***************************************************************************)
(* Python values passed where the code tests their type or truth           *)
(***************************************************************************)

PyTrue == [t |-> "bool", n |-> 1]
PyFalse == [t |-> "bool", n |-> 0]
PyNone == [t |-> "NoneType", n |-> 0]
PyInt(n) == [t |-> "int", n |-> n]
PyStr(s) == [t |-> "str", n |-> Len(s)]

\* a == b for the values above: bool is a subclass of int, so True == 1
PyEq(a, b) ==
  IF a.t \in {"bool", "int"} /\ b.t \in {"bool", "int"}
    THEN a.n = b.n
    ELSE a = b

\* bool(a)
PyTruthy(a) == a.t # "NoneType" /\ a.n # 0

(***************************************************************************)
(* urllib.quote and urllib.unquote                                         *)
(***************************************************************************)

\* urllib.always_safe: letters, digits and "_.-"
AlwaysSafe ==
  (65..90) \cup (97..122) \cup (48..57) \cup {Ord("_"), Ord("."), Ord("-")}

\* string.hexdigits
IsHex(c) == c \in (48..57) \cup (65..70) \cup (97..102)

\* int(c, 16) for one hex digit
HexVal(c) == IF c <= 57 THEN c - 48 ELSE IF c <= 70 THEN c - 55 ELSE c - 87

\* the upper-case hex digit of n in 0..15, as '%02X' prints it
HexDigit(n) == IF n < 10 THEN 48 + n ELSE 55 + n

\* what quote's safe map gives for one character
QuoteChar(c, safe) ==
  IF c \in AlwaysSafe \cup safe
    THEN <<c>>
    ELSE <<Ord("%"), HexDigit(c \div 16), HexDigit(c % 16)>>

\* urllib.quote(s, safe)
Quote(s, safe) == Concat([i \in 1..Len(s) |-> QuoteChar(s[i], safe)])

RECURSIVE Unquote(_)
\* urllib.unquote(s): '%' and two hex digits become one character, any other
\* '%' stays as it is
Unquote(s) ==
  IF s = <<>> THEN <<>>
  ELSE IF s[1] = Ord("%") /\ Len(s) >= 3 /\ IsHex(s[2]) /\ IsHex(s[3])
    THEN <<16 * HexVal(s[2]) + HexVal(s[3])>> \o Unquote(Slice(s, 4, Len(s)))
    ELSE <<s[1]>> \o Unquote(Tail(s))

(***************************************************************************)
(* GFFAttributes                                                           *)
(***************************************************************************)

\* self.__multivalued_attributes
multivalued_attributes ==
  { Str(<<"P","a","r","e","n","t">>),
    Str(<<"A","l","i","a","s">>),
    Str(<<"N","o","t","e">>),
    Str(<<"D","b","x","r","e","f">>),
    Str(<<"O","n","t","o","l","o","g","y","_","t","e","r","m">>) }

\* safe=" :^*$@!+?|"
SafeChars == Range(Str(<<" ", ":", "^", "*", "$", "@", "!", "+", "?", "|">>))

\* safe=" ,:^*$@!+?|"
SafeCharsMulti == SafeChars \cup {Ord(",")}

\* The object before any attribute data is read
AttrEmpty ==
  [od |-> ODInit, nokeys |-> <<>>, encode_values |-> PyTrue,
   trailing_semicolon |-> FALSE]

\* A loop body that keeps the value a key already has
AttrStoreItemKeepFirst(a, item) ==
  IF item = <<>> THEN a
  ELSE LET i == IndexOf(item, Ord("="))
           key == IF i = 0 THEN <<>> ELSE Strip(Slice(item, 1, i-1))
           raw == IF i = 0 THEN Strip(item)
                  ELSE Strip(Slice(item, i+1, Len(item)))
           value == Unquote(raw)
       IN  IF key = <<>>
             THEN [a EXCEPT !.nokeys = Append(@, value)]
             ELSE IF ODContains(a.od, key) THEN a
             ELSE [a EXCEPT !.od = ODSetItem(@, key, value)]

\* One pass of the constructor's loop body over item
AttrStoreItem(a, item) ==
  IF item = <<>> THEN a
  ELSE LET i == IndexOf(item, Ord("="))
           key == IF i = 0 THEN <<>> ELSE Strip(Slice(item, 1, i-1))
           raw == IF i = 0 THEN Strip(item)
                  ELSE Strip(Slice(item, i+1, Len(item)))
           value == Unquote(raw)
       IN  IF key = <<>>
             THEN [a EXCEPT !.nokeys = Append(@, value)]
             ELSE [a EXCEPT !.od = ODSetItem(@, key, value)]

RECURSIVE AttrStoreItems(_, _)
\* The constructor's loop over attribute_data.split(';')
AttrStoreItems(a, items) ==
  IF items = <<>> THEN a
  ELSE AttrStoreItems(AttrStoreItem(a, Head(items)), Tail(items))

\* GFFAttributes.__init__(attribute_data)
AttrInit(attribute_data) ==
  IF attribute_data = <<>> THEN AttrEmpty
  ELSE [AttrStoreItems(AttrEmpty, Split(attribute_data, Ord(";")))
          EXCEPT !.trailing_semicolon = EndsWith(attribute_data, Ord(";"))]

\* GFFAttributes.encode(new_setting): the new object, the value returned and
\* the error raised
AttrEncode(a, new_setting) ==
  IF PyEq(new_setting, PyTrue) \/ PyEq(new_setting, PyFalse)
    THEN [attr |-> [a EXCEPT !.encode_values = new_setting],
          ret |-> new_setting, err |-> ""]
    ELSE IF new_setting # PyNone
      THEN [attr |-> a, ret |-> PyNone, err |-> "ValueError"]
      ELSE [attr |-> a, ret |-> a.encode_values, err |-> ""]

\* An escape that forgets the multivalued attributes
EscapeValueNoMulti(a, key, value) == Quote(ODGetItem(a.od, key).val, SafeChars)

\* GFFAttributes.__escape_value(key, value)
EscapeValue(a, key, value) ==
  IF key \in multivalued_attributes
    THEN Quote(value, SafeCharsMulti)
    ELSE Quote(ODGetItem(a.od, key).val, SafeChars)

\* Items that are escaped whatever the encoding flag says
ReprItemsAlwaysEscape(a) ==
  LET keys == ODKeys(a.od)
      keyed == [i \in 1..Len(keys) |->
                  keys[i] \o <<Ord("=")>> \o
                  EscapeValue(a, keys[i], ODGetItem(a.od, keys[i]).val)]
  IN  keyed \o a.nokeys \o (IF a.trailing_semicolon THEN << <<>> >> ELSE <<>>)

\* The items __repr__ joins
ReprItems(a) ==
  LET keys == ODKeys(a.od)
      keyed == [i \in 1..Len(keys) |->
                  LET key == keys[i]
                      value == ODGetItem(a.od, key).val
                  IN  key \o <<Ord("=")>> \o
                      (IF PyTruthy(a.encode_values)
                         THEN EscapeValue(a, key, value)
                         ELSE value)]
  IN  keyed \o a.nokeys \o (IF a.trailing_semicolon THEN << <<>> >> ELSE <<>>)

\* GFFAttributes.__repr__
Repr(a) == Join(<<Ord(";")>>, ReprItems(a))

(***************************************************************************)
(* GFFDataLine, GFFIterator and GFFFile                                    *)
(***************************************************************************)

\* Types of line in GFF files
PRAGMA == 0
COMMENT == 1
ANNOTATION == 2

RECURSIVE SplitWhitespace(_)
\* s.split(): the runs of characters that are not whitespace
SplitWhitespace(s) ==
  LET t == Strip(s)
      ws == {i \in 1..Len(t) : t[i] \in Whitespace}
  IN  IF t = <<>> THEN <<>>
      ELSE IF ws = {} THEN <<t>>
      ELSE LET i == CHOOSE k \in ws : \A j \in ws : k <= j
           IN  <<Slice(t, 1, i-1)>> \o SplitWhitespace(Slice(t, i+1, Len(t)))

\* The text of a line without its line end
Chomp(line) ==
  IF EndsWith(line, Ord("\n")) THEN Slice(line, 1, Len(line) - 1) ELSE line

\* The 'attributes' column of a line: the ninth tab-separated field, empty
\* when the line has fewer fields
AttributesField(line) ==
  LET fields == Split(Chomp(line), Ord("\t"))
  IN  IF Len(fields) >= 9 THEN fields[9] ELSE <<>>

\* GFFDataLine(line, lineno, gff_line_type)
GFFDataLine(line, lineno, gff_line_type) ==
  [lineno |-> lineno, type |-> gff_line_type, line |-> line,
   attributes |-> AttrInit(AttributesField(line))]

\* A classification that tests for '#' before it tests for '##'
LineTypeCommentFirst(line) ==
  IF StartsWith(line, Str(<<"#">>)) THEN COMMENT
  ELSE IF StartsWith(line, Str(<<"#", "#">>)) THEN PRAGMA
  ELSE ANNOTATION

\* The type GFFIterator.next sets for a line
LineType(line) ==
  IF StartsWith(line, Str(<<"#", "#">>)) THEN PRAGMA
  ELSE IF StartsWith(line, Str(<<"#">>)) THEN COMMENT
  ELSE ANNOTATION

\* A next() that closes the file at the end whoever opened it
IterNextAlwaysClose(lines, pos, closed, close_fp, n) ==
  IF closed
    THEN [out |-> "ValueError", rec |-> <<>>, pos |-> pos, closed |-> closed,
          lineno |-> n]
    ELSE IF pos < Len(lines)
      THEN [out |-> "record",
            rec |-> <<GFFDataLine(lines[pos + 1], n + 1,
                                  LineType(lines[pos + 1]))>>,
            pos |-> pos + 1, closed |-> closed, lineno |-> n + 1]
      ELSE [out |-> "StopIteration", rec |-> <<>>, pos |-> pos,
            closed |-> TRUE, lineno |-> n + 1]

\* GFFIterator.next on a file object holding lines, read up to pos, closed
\* or not, with the iterator's close_fp flag and line counter n: what the
\* call gives (a record, StopIteration, or the ValueError of reading a
\* closed file) and the file object and counter after it
IterNext(lines, pos, closed, close_fp, n) ==
  IF closed
    THEN [out |-> "ValueError", rec |-> <<>>, pos |-> pos, closed |-> closed,
          lineno |-> n]
    ELSE IF pos < Len(lines)
      THEN [out |-> "record",
            rec |-> <<GFFDataLine(lines[pos + 1], n + 1,
                                  LineType(lines[pos + 1]))>>,
            pos |-> pos + 1, closed |-> closed, lineno |-> n + 1]
      ELSE [out |-> "StopIteration", rec |-> <<>>, pos |-> pos,
            closed |-> close_fp, lineno |-> n + 1]

\* The version of a table: <<>> for None, <<v>> once a pragma set it to v
NoVersion == <<>>

\* A loop body that keeps the first version it saw
ProcessRecordFirstVersion(tbl, ver, rec) ==
  IF rec.type = ANNOTATION
    THEN [table |-> Append(tbl, rec), version |-> ver, err |-> ""]
    ELSE IF rec.type = PRAGMA
      THEN LET pragma == SplitWhitespace(Slice(Chomp(rec.line), 3, Len(Chomp(rec.line))))
           IN  IF Len(pragma) < 1
                 THEN [table |-> tbl, version |-> ver, err |-> "IndexError"]
                 ELSE IF pragma[1] = Str(<<"g","f","f","-","v","e","r","s","i","o","n">>)
                   THEN IF Len(pragma) < 2
                          THEN [table |-> tbl, version |-> ver, err |-> "IndexError"]
                          ELSE [table |-> tbl,
                                version |-> IF ver = NoVersion THEN <<pragma[2]>> ELSE ver,
                                err |-> ""]
                   ELSE [table |-> tbl, version |-> ver, err |-> ""]
      ELSE [table |-> tbl, version |-> ver, err |-> ""]

\* A loop body that stores every record that is not a comment
ProcessRecordKeepPragma(tbl, ver, rec) ==
  IF rec.type # COMMENT
    THEN [table |-> Append(tbl, rec), version |-> ver, err |-> ""]
    ELSE [table |-> tbl, version |-> ver, err |-> ""]

\* The body of the loop of GFFFile.__init__ for one record: the table and
\* the version after it, and the error it raises
ProcessRecord(tbl, ver, rec) ==
  IF rec.type = ANNOTATION
    THEN [table |-> Append(tbl, rec), version |-> ver, err |-> ""]
    ELSE IF rec.type = PRAGMA
      THEN LET pragma == SplitWhitespace(Slice(Chomp(rec.line), 3, Len(Chomp(rec.line))))
           IN  IF Len(pragma) < 1
                 \* pragma[0] of an empty list
                 THEN [table |-> tbl, version |-> ver, err |-> "IndexError"]
                 ELSE IF pragma[1] = Str(<<"g","f","f","-","v","e","r","s","i","o","n">>)
                   THEN IF Len(pragma) < 2
                          \* pragma[1] of a one-item list
                          THEN [table |-> tbl, version |-> ver, err |-> "IndexError"]
                          ELSE [table |-> tbl, version |-> <<pragma[2]>>, err |-> ""]
                   ELSE [table |-> tbl, version |-> ver, err |-> ""]
      ELSE [table |-> tbl, version |-> ver, err |-> ""]


(***************************************************************************)
(* GFFID                                                                   *)
(***************************************************************************)

\* '0'..'9'
IsDigit(c) == c \in 48..57

RECURSIVE DigitsValue(_)
\* The number a non-empty string of decimal digits denotes
DigitsValue(d) ==
  IF Len(d) = 0 THEN 0
  ELSE 10 * DigitsValue(SubSeq(d, 1, Len(d) - 1)) + (d[Len(d)] - 48)

\* int(s) of a string: surrounding whitespace is dropped, then one optional
\* sign, then at least one decimal digit and nothing else; anything else
\* raises ValueError
IntOfStr(s) ==
  LET t == Strip(s)
      signed == Len(t) >= 1 /\ t[1] \in {Ord("+"), Ord("-")}
      d == IF signed THEN Tail(t) ELSE t
      ok == Len(d) >= 1 /\ \A i \in 1..Len(d) : IsDigit(d[i])
      neg == signed /\ t[1] = Ord("-")
  IN  IF ok
        THEN [err |-> "", val |-> IF neg THEN 0 - DigitsValue(d)
                                  ELSE DigitsValue(d)]
        ELSE [err |-> "ValueError", val |-> 0]

RECURSIVE NatToStr(_)
\* The decimal digits of a natural number
NatToStr(n) ==
  IF n < 10 THEN <<48 + n>>
  ELSE NatToStr(n \div 10) \o <<48 + (n % 10)>>

\* "%d" % n
IntToStr(n) == IF n < 0 THEN <<Ord("-")>> \o NatToStr(0 - n) ELSE NatToStr(n)

\* A constructor that takes the index from the last segment
GFFIDInitIndexFromLast(id) ==
  LET items == Split(id, Ord(":"))
      code == IF Len(items) = 1 THEN <<>> ELSE items[1]
      name == IF Len(items) = 1 THEN id ELSE items[2]
      idx == IF Len(items) > 2 THEN IntOfStr(items[Len(items)])
             ELSE [err |-> "", val |-> 0]
  IN  [err |-> idx.err, code |-> code, name |-> name, index |-> idx.val]

\* GFFID.__init__: what GFFID(id) raises, and the fields it sets when it
\* raises nothing
GFFIDInit(id) ==
  LET items == Split(id, Ord(":"))
      code == IF Len(items) = 1 THEN <<>> ELSE items[1]
      name == IF Len(items) = 1 THEN id ELSE items[2]
      idx == IF Len(items) > 2 THEN IntOfStr(items[3])
             ELSE [err |-> "", val |-> 0]
  IN  [err |-> idx.err, code |-> code, name |-> name, index |-> idx.val]

\* A __repr__ that drops the index
GFFIDReprNoIndex(g) ==
  IF g.code = <<>> THEN g.name
  ELSE g.code \o <<Ord(":")>> \o g.name

\* GFFID.__repr__
GFFIDRepr(g) ==
  IF g.code = <<>> THEN g.name
  ELSE g.code \o <<Ord(":")>> \o g.name \o <<Ord(":")>> \o IntToStr(g.index)

(***************************************************************************)
(* State                                                                   *)
(***************************************************************************)

VARIABLES
  od,        \* an OrderedDictionary under test: [keys, dict]
  lastOp,    \* the last call made on od: [op, key, value, pos]
  odErr,     \* the error the last call raised, "" when none
  odRet,     \* the value the last __getitem__ returned
  hist,      \* the keys of the __setitem__ calls made so far, in call order
  setsOnly,  \* TRUE while only __setitem__ (and __getitem__) was called on od
  src,       \* the attribute string handed to GFFAttributes
  attr,      \* the GFFAttributes object: [od, nokeys, encode_values,
             \* trailing_semicolon]
  phase,     \* "new" before the constructor ran, "ready" after
  edits,     \* how many edits (set, delete, nokeys changes) were made
  attrErr,   \* the error the last call on attr raised
  encArg,    \* the argument of the last encode() call
  encRet,    \* the value the last encode() call returned
  stream,    \* the lines of the file the iterator reads
  mode,      \* "iterate": next() is called directly; "build": by GFFFile
  close_fp,  \* GFFIterator.__close_fp: the iterator opened the file itself
  fpPos,     \* how many lines were read from the file object
  fpClosed,  \* the file object was closed
  lineno,    \* GFFIterator.__lineno
  pc,        \* "loop", "body", "done" (StopIteration ended it), "error"
  cur,       \* the record the loop body is about to handle: <<>> or <<rec>>
  iterErr,   \* the error that ended the build or the last next() call
  yielded,   \* the records next() has returned so far, in order
  stops,     \* how many times next() raised StopIteration
  table,     \* the records of the GFFFile
  version,   \* GFFFile._version
  gff_id,    \* the string handed to GFFID
  gffid,     \* the GFFID object: [code, name, index]
  idpc,      \* "new" before GFFID(gff_id) ran, "ready" after, "error" when
             \* it raised ValueError
  idStr      \* what str(gffid) returned: <<>> before the call, <<s>> after

mapVars == <<od, lastOp, odErr, odRet, hist, setsOnly>>
attrVars == <<src, attr, phase, edits, attrErr, encArg, encRet>>
iterVars ==
  <<stream, mode, close_fp, fpPos, fpClosed, lineno, pc, cur, iterErr,
    yielded, stops, table, version>>
idVars == <<gff_id, gffid, idpc, idStr>>
vars == <<mapVars, attrVars, iterVars, idVars>>

\* What a call on the OrderedDictionary under test leaves alone
MapOnly == UNCHANGED <<attrVars, iterVars, idVars>>
\* What a call on the GFFAttributes object leaves alone
AttrOnly == UNCHANGED <<mapVars, iterVars, idVars>>
\* What a step of the iterator or of GFFFile leaves alone
IterOnly == UNCHANGED <<mapVars, attrVars, idVars>>
\* What a call on the GFFID object leaves alone
IdOnly == UNCHANGED <<mapVars, attrVars, iterVars>>

(***************************************************************************)
(* Bounds                                                                  *)
(***************************************************************************)

\* the longest recorded sequence of __setitem__ calls
MaxSets == 4
\* the largest position handed to insert
MaxPos == 3
\* the most pieces of Pieces an attribute string is made of
MaxPieces == 4
\* the most characters of an attribute string that is later edited
MaxEditSrc == 3
\* the most edits made to one GFFAttributes object
MaxEdits == 2
\* the most lines of a file
MaxLines == 3
\* the most next() calls made after the first StopIteration
MaxExtraNext == 2
\* the most pieces of ParsePieces an attribute string is made of
MaxParsePieces == 5
\* the most pieces of IdPieces an id string is made of
MaxIdPieces == 5

(***************************************************************************)
(* OrderedDictionary: operations                                           *)
(***************************************************************************)

\* the keys and values of TestOrderedDictionary
MapKeys == {"hello", "stanley", "monty"}
MapValues == {"goodbye", "fletcher"}
Positions == (0 - 2)..MaxPos

NoOp == [op |-> "", key |-> "", value |-> "", pos |-> 0]

InitMap ==
  /\ od = ODInit
  /\ lastOp = NoOp
  /\ odErr = ""
  /\ odRet = None
  /\ hist = <<>>
  /\ setsOnly = TRUE

\* d[key] = value
SetItem(key, value) ==
  /\ MapOnly
  /\ setsOnly => Len(hist) < MaxSets
  /\ od' = ODSetItem(od, key, value)
  /\ lastOp' = [op |-> "set", key |-> key, value |-> value, pos |-> 0]
  /\ odErr' = ""
  /\ odRet' = None
  /\ hist' = IF setsOnly THEN Append(hist, key) ELSE hist
  /\ UNCHANGED setsOnly

\* d[key]
GetItem(key) ==
  /\ MapOnly
  /\ LET r == ODGetItem(od, key)
     IN  /\ od' = od
         /\ lastOp' = [op |-> "get", key |-> key, value |-> "", pos |-> 0]
         /\ odErr' = r.err
         /\ odRet' = r.val
         /\ UNCHANGED <<hist, setsOnly>>

\* del(d[key])
DelItem(key) ==
  /\ MapOnly
  /\ LET r == ODDelItem(od, key)
     IN  /\ od' = r.od
         /\ lastOp' = [op |-> "del", key |-> key, value |-> "", pos |-> 0]
         /\ odErr' = r.err
         /\ odRet' = None
         /\ hist' = <<>>
         /\ setsOnly' = FALSE

\* d.insert(i, key, value)
Insert(i, key, value) ==
  /\ MapOnly
  /\ LET r == ODInsert(od, i, key, value)
     IN  /\ od' = r.od
         /\ lastOp' = [op |-> "insert", key |-> key, value |-> value, pos |-> i]
         /\ odErr' = r.err
         /\ odRet' = None
         /\ hist' = <<>>
         /\ setsOnly' = FALSE

NextMap ==
  \/ \E key \in MapKeys, value \in MapValues : SetItem(key, value)
  \/ \E key \in MapKeys : GetItem(key)
  \/ \E key \in MapKeys : DelItem(key)
  \/ \E i \in Positions, key \in MapKeys, value \in MapValues :
       Insert(i, key, value)

(***************************************************************************)
(* GFFAttributes: operations                                               *)
(***************************************************************************)

\* The pieces attribute strings are made of: single characters, percent
\* escapes and the name of a multivalued attribute
Pieces ==
  { Str(<<"c">>), Str(<<";">>), Str(<<"=">>), Str(<<",">>), Str(<<" ">>),
    Str(<<"%">>), Str(<<"%","2","C">>), Str(<<"%","2","c">>),
    Str(<<"%","3","B">>), Str(<<"N","o","t","e">>) }

\* Whole items and the separator, for attribute strings with repeated keys
ParsePieces ==
  { Str(<<"c","=","2">>), Str(<<"c","=">>), Str(<<" ","c"," ","="," ","3">>),
    Str(<<"N","o","t","e","=","%","2","C">>), Str(<<"c">>), Str(<<";">>) }

\* The characters the attribute strings of edited objects are made of
EditPieces == {Str(<<"c">>), Str(<<";">>), Str(<<"=">>)}

\* The keys, values and bare tokens edits use
EditKeys == {Str(<<"c">>), Str(<<"N","o","t","e">>)}
EditValues == {<<>>, Str(<<"c">>), Str(<<";">>), Str(<<",">>)}

\* The arguments encode() is called with
EncodeArgs ==
  {PyTrue, PyFalse, PyNone, PyInt(0), PyInt(1), PyInt(2),
   PyStr(<<>>), PyStr(Str(<<"y","e","s">>))}

\* The state before GFFAttributes(src) is called, src made of at most n
\* members of the set of strings P
InitAttr(P, n) ==
  /\ \E k \in 0..n : \E p \in [1..k -> P] : src = Concat(p)
  /\ attr = AttrEmpty
  /\ phase = "new"
  /\ edits = 0
  /\ attrErr = ""
  /\ encArg = PyNone
  /\ encRet = PyNone

\* attr = GFFAttributes(src)
Construct ==
  /\ AttrOnly
  /\ phase = "new"
  /\ attr' = AttrInit(src)
  /\ phase' = "ready"
  /\ UNCHANGED <<src, edits, attrErr, encArg, encRet>>

\* attr.encode(new_setting)
Encode(new_setting) ==
  /\ AttrOnly
  /\ phase = "ready"
  /\ LET r == AttrEncode(attr, new_setting)
     IN  /\ attr' = r.attr
         /\ encRet' = r.ret
         /\ attrErr' = r.err
  /\ encArg' = new_setting
  /\ UNCHANGED <<src, phase, edits>>

\* attr[key] = value
AttrSet(key, value) ==
  /\ AttrOnly
  /\ phase = "ready"
  /\ edits < MaxEdits
  /\ attr' = [attr EXCEPT !.od = ODSetItem(@, key, value)]
  /\ attrErr' = ""
  /\ edits' = edits + 1
  /\ UNCHANGED <<src, phase, encArg, encRet>>

\* del(attr[key])
AttrDel(key) ==
  /\ AttrOnly
  /\ phase = "ready"
  /\ edits < MaxEdits
  /\ LET r == ODDelItem(attr.od, key)
     IN  /\ attr' = [attr EXCEPT !.od = r.od]
         /\ attrErr' = r.err
  /\ edits' = edits + 1
  /\ UNCHANGED <<src, phase, encArg, encRet>>

\* attr.nokeys().append(item)
NokeysAppend(item) ==
  /\ AttrOnly
  /\ phase = "ready"
  /\ edits < MaxEdits
  /\ attr' = [attr EXCEPT !.nokeys = Append(@, item)]
  /\ attrErr' = ""
  /\ edits' = edits + 1
  /\ UNCHANGED <<src, phase, encArg, encRet>>

\* del(attr.nokeys()[:])
NokeysClear ==
  /\ AttrOnly
  /\ phase = "ready"
  /\ edits < MaxEdits
  /\ attr' = [attr EXCEPT !.nokeys = <<>>]
  /\ attrErr' = ""
  /\ edits' = edits + 1
  /\ UNCHANGED <<src, phase, encArg, encRet>>

\* Parsing, serialising and switching the encoding on and off
NextAttr ==
  \/ Construct
  \/ \E b \in {PyTrue, PyFalse} : Encode(b)

\* Parsing alone
NextParse == Construct

\* Parsing followed by encode() calls of any argument
NextEncode ==
  \/ Construct
  \/ \E a \in EncodeArgs : Encode(a)

\* Parsing followed by edits
NextEdit ==
  \/ Construct
  \/ \E b \in {PyTrue, PyFalse} : Encode(b)
  \/ \E key \in EditKeys, value \in EditValues : AttrSet(key, value)
  \/ \E key \in EditKeys : AttrDel(key)
  \/ \E item \in EditValues : NokeysAppend(item)
  \/ NokeysClear

(***************************************************************************)
(* GFFIterator and GFFFile: operations                                     *)
(***************************************************************************)

\* The lines files are made of
SampleLines ==
  { Str(<<"#","#","g","f","f","-","v","e","r","s","i","o","n"," ","3","\n">>),
    Str(<<"#","#","g","f","f","-","v","e","r","s","i","o","n"," ","2","\n">>),
    Str(<<"#","#","g","f","f","-","v","e","r","s","i","o","n","\n">>),
    Str(<<"#","#","c"," ","2","\n">>),
    Str(<<"#","#","\n">>),
    Str(<<"#"," ","c","\n">>),
    Str(<<"c","\t","c","\t","c","\t","2","\t","3","\t",".","\t","+","\t",".",
          "\t","c","=","%","2","C",";","c","\n">>) }

\* The state after GFFIterator(...) or GFFFile(...) was started on a file of
\* at most n lines
InitIter(n) ==
  /\ \E k \in 0..n : stream \in [1..k -> SampleLines]
  /\ mode \in {"iterate", "build"}
  /\ close_fp \in BOOLEAN
  /\ fpPos = 0
  /\ fpClosed = FALSE
  /\ lineno = 0
  /\ pc = "loop"
  /\ cur = <<>>
  /\ iterErr = ""
  /\ yielded = <<>>
  /\ stops = 0
  /\ table = <<>>
  /\ version = NoVersion

\* next() called by the caller's own loop, also after StopIteration
CallNext ==
  /\ IterOnly
  /\ mode = "iterate"
  /\ stops <= MaxExtraNext
  /\ iterErr # "ValueError"
  /\ LET r == IterNext(stream, fpPos, fpClosed, close_fp, lineno)
     IN  /\ fpPos' = r.pos
         /\ fpClosed' = r.closed
         /\ lineno' = r.lineno
         /\ yielded' = yielded \o r.rec
         /\ cur' = r.rec
         /\ stops' = IF r.out = "StopIteration" THEN stops + 1 ELSE stops
         /\ iterErr' = IF r.out = "record" THEN "" ELSE r.out
         /\ pc' = IF r.out = "record" THEN "loop"
                  ELSE IF r.out = "StopIteration" THEN "done" ELSE "error"
  /\ UNCHANGED <<stream, mode, close_fp, table, version>>

\* The for statement of GFFFile.__init__ asks the iterator for a record
BuildNext ==
  /\ IterOnly
  /\ mode = "build"
  /\ pc = "loop"
  /\ LET r == IterNext(stream, fpPos, fpClosed, close_fp, lineno)
     IN  /\ fpPos' = r.pos
         /\ fpClosed' = r.closed
         /\ lineno' = r.lineno
         /\ yielded' = yielded \o r.rec
         /\ cur' = r.rec
         /\ stops' = IF r.out = "StopIteration" THEN stops + 1 ELSE stops
         /\ iterErr' = IF r.out = "record" THEN "" ELSE r.out
         /\ pc' = IF r.out = "record" THEN "body"
                  ELSE IF r.out = "StopIteration" THEN "done" ELSE "error"
  /\ UNCHANGED <<stream, mode, close_fp, table, version>>

\* The body of the for statement of GFFFile.__init__
BuildBody ==
  /\ IterOnly
  /\ mode = "build"
  /\ pc = "body"
  /\ LET r == ProcessRecord(table, version, cur[1])
     IN  /\ table' = r.table
         /\ version' = r.version
         /\ iterErr' = r.err
         /\ pc' = IF r.err = "" THEN "loop" ELSE "error"
  /\ cur' = <<>>
  /\ UNCHANGED <<stream, mode, close_fp, fpPos, fpClosed, lineno, yielded,
                 stops>>

\* No file is read
IdleIter == InitIter(0) /\ mode = "iterate" /\ close_fp = FALSE

NextIter ==
  \/ CallNext
  \/ BuildNext
  \/ BuildBody

(***************************************************************************)
(* GFFID: operations                                                       *)
(***************************************************************************)

\* What id strings are made of: the characters of TestGFFID's ids, a digit
\* 0, signs and a blank
IdPieces ==
  { Str(<<"c">>), Str(<<":">>), Str(<<"2">>), Str(<<"0">>), Str(<<"-">>),
    Str(<<"+">>), Str(<<" ">>) }

\* No GFFID object yet
NoGFFID == [code |-> <<>>, name |-> <<>>, index |-> 0]

\* The state before GFFID(gff_id) is called on a string of at most n pieces
InitId(P, n) ==
  /\ \E k \in 0..n : \E p \in [1..k -> P] : gff_id = Concat(p)
  /\ gffid = NoGFFID
  /\ idpc = "new"
  /\ idStr = <<>>

\* GFFID(gff_id)
NewGFFID ==
  /\ IdOnly
  /\ idpc = "new"
  /\ LET r == GFFIDInit(gff_id)
     IN  IF r.err = ""
           THEN /\ gffid' = [code |-> r.code, name |-> r.name,
                             index |-> r.index]
                /\ idpc' = "ready"
           ELSE /\ gffid' = gffid
                /\ idpc' = "error"
  /\ UNCHANGED <<gff_id, idStr>>

\* str(gffid)
StrGFFID ==
  /\ IdOnly
  /\ idpc = "ready"
  /\ idStr = <<>>
  /\ idStr' = <<GFFIDRepr(gffid)>>
  /\ UNCHANGED <<gff_id, gffid, idpc>>

\* No GFFID is made
IdleId == InitId({}, 0)

NextId ==
  \/ NewGFFID
  \/ StrGFFID

(***************************************************************************)
(* Specifications                                                          *)
(***************************************************************************)

\* OrderedDictionary alone
InitMapSpec == InitMap /\ InitAttr({}, 0) /\ IdleIter /\ IdleId
SpecMap == InitMapSpec /\ [][NextMap]_vars

\* GFFAttributes: parse, serialise, switch the encoding on and off
InitAttrSpec == InitMap /\ InitAttr(Pieces, MaxPieces) /\ IdleIter /\ IdleId
SpecAttr == InitAttrSpec /\ [][NextAttr]_vars

\* GFFAttributes: parse, then call encode() with any argument
InitEncodeSpec ==
  InitMap /\ InitAttr(EditPieces, MaxEditSrc) /\ IdleIter /\ IdleId
SpecEncode == InitEncodeSpec /\ [][NextEncode]_vars

\* GFFIterator and GFFFile reading a file
Init == InitMap /\ InitAttr({}, 0) /\ InitIter(MaxLines) /\ IdleId
Next == NextIter
Spec == Init /\ [][Next]_vars

\* GFFAttributes: parse, then edit
InitEditSpec ==
  InitMap /\ InitAttr(EditPieces, MaxEditSrc) /\ IdleIter /\ IdleId
SpecEdit == InitEditSpec /\ [][NextEdit]_vars

\* GFFAttributes(src) on strings made of whole items
InitParseSpec ==
  InitMap /\ InitAttr(ParsePieces, MaxParsePieces) /\ IdleIter /\ IdleId
SpecParse == InitParseSpec /\ [][NextParse]_vars

\* GFFID alone
InitIdSpec ==
  InitMap /\ InitAttr({}, 0) /\ IdleIter /\ InitId(IdPieces, MaxIdPieces)
SpecId == InitIdSpec /\ [][NextId]_vars

(***************************************************************************)
(* Properties of OrderedDictionary                                         *)
(***************************************************************************)

\* The position of the first x in h
FirstAt(h, x) == CHOOSE i \in 1..Len(h) : h[i] = x /\ \A j \in 1..(i-1) : h[j] # x

NoDuplicates(s) == \A i, j \in 1..Len(s) : i # j => s[i] # s[j]

\* C4: after any sequence of __setitem__ calls, keys() holds every key that
\* was set exactly once, ordered by the first call that set each key.
C4_KeysInFirstInsertionOrder ==
  setsOnly =>
    LET k == ODKeys(od)
    IN  /\ Range(k) = Range(hist)
        /\ \A i, j \in 1..Len(k) :
             i < j => k[i] # k[j] /\ FirstAt(hist, k[i]) < FirstAt(hist, k[j])

\* C4 witness: a key was set, another key was set, and the first was set again
C4_Witness ==
  /\ setsOnly
  /\ Len(hist) >= 3
  /\ hist[1] = hist[3]
  /\ hist[2] # hist[1]
  /\ Len(ODKeys(od)) = 2

\* C5: after any sequence of set, delete and insert calls, failing ones
\* included, the key list has no duplicates, holds exactly the keys of the
\* lookup table, and len() is the number of those keys.
C5_KeysMatchLookup ==
  /\ NoDuplicates(od.keys)
  /\ Range(od.keys) = DOMAIN od.dict
  /\ ODLen(od) = Cardinality(DOMAIN od.dict)

\* C5 witness: a failing insert on a dictionary that went through deletes or
\* inserts and holds two keys or more
C5_Witness ==
  /\ ~setsOnly
  /\ lastOp.op = "insert"
  /\ odErr = KeyExists
  /\ Len(od.keys) >= 2

\* C6: a get or delete of an absent key raises KeyError, an insert of a key
\* that is present raises the key-exists error, and a call that raises leaves
\* keys, values and positions as they were.
C6_FailingCallsChangeNothing ==
  [][ /\ (lastOp'.op \in {"get", "del"} /\ ~ODContains(od, lastOp'.key))
           => (odErr' = "KeyError" /\ od' = od)
      /\ (lastOp'.op = "insert" /\ ODContains(od, lastOp'.key))
           => (odErr' = KeyExists /\ od' = od)
      /\ (odErr' # "" => od' = od) ]_vars

\* C6 witness: an insert of a present key failed, after a get or delete of an
\* absent key could fail as well
C6_Witness ==
  /\ lastOp.op = "insert"
  /\ odErr = KeyExists
  /\ Len(od.keys) >= 2
  /\ Len(od.keys) < Cardinality(MapKeys)

(***************************************************************************)
(* Properties of GFFAttributes                                             *)
(***************************************************************************)

\* The ';'-separated segments of s that are not empty
Segments(s) == SelectSeq(Split(s, Ord(";")), LAMBDA seg : seg # <<>>)

\* The key a segment is stored under: the text before its first '=',
\* without surrounding whitespace; empty for a bare token
SegKey(seg) ==
  LET i == IndexOf(seg, Ord("="))
  IN  IF i = 0 THEN <<>> ELSE Strip(Slice(seg, 1, i-1))

\* No key occurs twice in s
NoRepeatedKey(s) ==
  LET segs == Segments(s)
  IN  \A i, j \in 1..Len(segs) :
        (i # j /\ SegKey(segs[i]) # <<>>) => SegKey(segs[i]) # SegKey(segs[j])

\* s neither starts nor ends with whitespace
Trimmed(s) == s = <<>> \/ (s[1] \notin Whitespace /\ s[Len(s)] \notin Whitespace)

RECURSIVE EscapedForm(_, _)
\* v is written as the encoder writes: safe characters as they are, every
\* other character as '%' and two upper-case hex digits
EscapedForm(v, safe) ==
  \/ v = <<>>
  \/ /\ v[1] \in AlwaysSafe \cup safe
     /\ EscapedForm(Tail(v), safe)
  \/ /\ v[1] = Ord("%")
     /\ Len(v) >= 3
     /\ v[2] \in (48..57) \cup (65..70)
     /\ v[3] \in (48..57) \cup (65..70)
     /\ (16 * HexVal(v[2]) + HexVal(v[3])) \notin AlwaysSafe \cup safe
     /\ EscapedForm(Slice(v, 4, Len(v)), safe)

\* seg holds a '%' followed by two hex digits
HasEscape(seg) ==
  \E i \in 1..(Len(seg) - 2) :
    seg[i] = Ord("%") /\ IsHex(seg[i+1]) /\ IsHex(seg[i+2])

\* A segment in the form the serialiser writes
CanonicalSegment(seg) ==
  LET i == IndexOf(seg, Ord("="))
      key == Slice(seg, 1, i-1)
      value == Slice(seg, i+1, Len(seg))
  IN  IF i = 0
        THEN Trimmed(seg) /\ ~HasEscape(seg)
        ELSE /\ key # <<>>
             /\ Trimmed(key)
             /\ Trimmed(value)
             /\ EscapedForm(value, IF key \in multivalued_attributes
                                     THEN SafeCharsMulti ELSE SafeChars)

\* An attribute string in the form the serialiser writes: empty, or non-empty
\* segments with an optional final ';', keyed segments first, keys distinct
Canonical(s) ==
  \/ s = <<>>
  \/ LET body == IF EndsWith(s, Ord(";")) THEN Slice(s, 1, Len(s) - 1) ELSE s
         segs == Split(body, Ord(";"))
     IN  /\ \A i \in 1..Len(segs) : segs[i] # <<>> /\ CanonicalSegment(segs[i])
         /\ \A i, j \in 1..Len(segs) :
              (i < j /\ IndexOf(segs[j], Ord("=")) # 0)
                => /\ IndexOf(segs[i], Ord("=")) # 0
                   /\ SegKey(segs[i]) # SegKey(segs[j])

\* The object is as the constructor left it, with encoding at its default
Untouched == phase = "ready" /\ edits = 0 /\ attr.encode_values = PyTrue

C3_TrailingSeparatorEmitted ==
  (phase = "ready" /\ attr.trailing_semicolon) =>
    /\ Repr(attr) = Repr([attr EXCEPT !.trailing_semicolon = FALSE])
                      \o <<Ord(";")>>
    /\ EndsWith(Repr(attr), Ord(";"))

\* s with the value of every keyed segment and every bare segment decoded
Unescaped(s) ==
  LET segs == Split(s, Ord(";"))
      dec(seg) == LET i == IndexOf(seg, Ord("="))
                  IN  IF i = 0 THEN Unquote(seg)
                      ELSE Slice(seg, 1, i) \o Unquote(Slice(seg, i+1, Len(seg)))
  IN  Join(<<Ord(";")>>, [i \in 1..Len(segs) |-> dec(segs[i])])

\* C7: for a source string that round-trips, the serialisation is the
\* unescaped string while encoding is off, the source string again once it
\* is back on, and encode() changes nothing but the flag.
C7_EncodingToggle ==
  (phase = "ready" /\ edits = 0 /\ Repr(AttrInit(src)) = src) =>
    /\ attr.encode_values = PyFalse => Repr(attr) = Unescaped(src)
    /\ attr.encode_values = PyTrue => Repr(attr) = src
    /\ [attr EXCEPT !.encode_values = PyTrue] = AttrInit(src)

\* C7 witness: encoding was switched off on a round-tripping string that
\* holds an escape, so the two serialisations differ
C7_Witness ==
  /\ phase = "ready"
  /\ Repr(AttrInit(src)) = src
  /\ encArg = PyFalse
  /\ attr.encode_values = PyFalse
  /\ Repr(attr) # src

\* C8: encode(True) and encode(False) store and return the argument,
\* encode() returns the flag unchanged, and any other argument raises
\* ValueError and leaves the flag as it was.
C8_EncodeAcceptsOnlyBooleans ==
  [][ (phase = "ready" /\ phase' = "ready") =>
        /\ encArg' \in {PyTrue, PyFalse} =>
             /\ attr'.encode_values = encArg'
             /\ encRet' = encArg'
             /\ attrErr' = ""
        /\ encArg' = PyNone =>
             /\ attr' = attr
             /\ encRet' = attr.encode_values
             /\ attrErr' = ""
        /\ encArg' \notin {PyTrue, PyFalse, PyNone} =>
             /\ attrErr' = "ValueError"
             /\ attr' = attr ]_attrVars

(***************************************************************************)
(* Properties of GFFIterator and GFFFile                                   *)
(***************************************************************************)

\* The type a line has by its first two characters
TypeByPrefix(line) ==
  IF Len(line) >= 2 /\ line[1] = Ord("#") /\ line[2] = Ord("#") THEN PRAGMA
  ELSE IF Len(line) >= 1 /\ line[1] = Ord("#") THEN COMMENT
  ELSE ANNOTATION

\* C9: the k-th record next() returns is made of the k-th line, carries line
\* number k and the type its prefix gives ('##' pragma, else '#' comment,
\* else annotation); next() raises nothing before its first StopIteration,
\* which comes when every line was returned.
C9_OneRecordPerLine ==
  /\ Len(yielded) <= Len(stream)
  /\ \A k \in 1..Len(yielded) :
       /\ yielded[k].line = stream[k]
       /\ yielded[k].lineno = k
       /\ yielded[k].type = TypeByPrefix(stream[k])
  /\ stops = 0 => (pc # "done" /\ Len(yielded) = fpPos /\ iterErr # "ValueError")
  /\ stops > 0 => Len(yielded) = Len(stream)

\* C9 witness: a file of a pragma, a comment and an annotation line, in any
\* order, was read to its end
C9_Witness ==
  /\ stops = 1
  /\ Len(yielded) = 3
  /\ {yielded[k].type : k \in 1..3} = {PRAGMA, COMMENT, ANNOTATION}

\* A line is a complete '##gff-version <v>' pragma
IsVersionPragma(line) ==
  /\ TypeByPrefix(line) = PRAGMA
  /\ LET words == SplitWhitespace(Slice(line, 3, Len(line)))
     IN  /\ Len(words) >= 2
         /\ words[1] = Str(<<"g","f","f","-","v","e","r","s","i","o","n">>)

\* The <v> of a '##gff-version <v>' pragma
VersionOf(line) == SplitWhitespace(Slice(line, 3, Len(line)))[2]

\* The positions of the version pragmas among the first n lines
VersionPragmas(n) == {k \in 1..n : IsVersionPragma(stream[k])}

\* The table was built: the loop of GFFFile.__init__ ended by StopIteration
Built == mode = "build" /\ pc = "done"

AnnotationLines ==
  SelectSeq([k \in 1..Len(stream) |-> [lineno |-> k, line |-> stream[k]]],
            LAMBDA r : TypeByPrefix(r.line) = ANNOTATION)

\* C10: after the build the table holds exactly the records of the
\* annotation lines, in file order: no pragma or comment, none dropped, none
\* twice.
C10_TableHoldsAnnotations ==
  Built =>
    /\ [j \in 1..Len(table) |->
          [lineno |-> table[j].lineno, line |-> table[j].line]]
         = AnnotationLines
    /\ \A j \in 1..Len(table) : table[j].type = ANNOTATION

\* C10 witness: a table was built from a file of three lines, two of them
\* annotations around a pragma or a comment
C10_Witness ==
  /\ Built
  /\ Len(stream) = 3
  /\ Len(table) = 2
  /\ table[1].lineno = 1
  /\ table[2].lineno = 3

\* C11: an iterator that opened its file itself has closed it once it has
\* raised StopIteration, and an iterator that was handed an open file never
\* closes it, in any state, also after StopIteration and after further calls
\* of next().
C11_OwnedSourceClosedOnExhaustion ==
  /\ (close_fp /\ stops >= 1) => fpClosed
  /\ ~close_fp => ~fpClosed

\* C11 witness: an iterator that opened its file read a line, raised
\* StopIteration and the file is closed
C11_Witness ==
  /\ mode = "iterate"
  /\ close_fp
  /\ Len(yielded) >= 1
  /\ stops = 1
  /\ fpClosed

\* The run over the file has ended: StopIteration was raised, or an error
\* left the loop of GFFFile.__init__ or the caller's loop
Terminated == pc \in {"done", "error"}

\* C12 as stated: a file the iterator opened itself is released however the
\* iteration ends: once the run has ended, by StopIteration or by an error
\* raised partway through the file, the file is closed.
C12_OwnedSourceReleasedOnTermination ==
  (close_fp /\ Terminated) => fpClosed

\* How many ':' the string s has before position i
ColonsBefore(s, i) == Cardinality({j \in 1..(i - 1) : s[j] = Ord(":")})

\* How many ':'-separated segments the string s has
NumSegments(s) == ColonsBefore(s, Len(s) + 1) + 1

\* The k-th ':'-separated segment of s, counted from 1
Segment(s, k) ==
  LET at == [i \in 1..Len(s) |-> [c |-> s[i], seg |-> ColonsBefore(s, i) + 1]]
      own == SelectSeq(at, LAMBDA e : e.c # Ord(":") /\ e.seg = k)
  IN  [i \in 1..Len(own) |-> own[i].c]

\* C13: GFFID(s) sets the fields by the number of ':'-separated segments of
\* s: one segment gives code '', name the segment, index 0; two give code
\* segment 0, name segment 1, index 0; three or more give code segment 0,
\* name segment 1 and index the integer value of segment 2, whatever follows,
\* and raise ValueError, making no object, when segment 2 is no integer.
C13_FieldsBySegmentCount ==
  idpc # "new" =>
    LET n == NumSegments(gff_id)
        seg(k) == Segment(gff_id, k)
    IN  /\ n = 1 =>
             /\ idpc = "ready"
             /\ gffid = [code |-> <<>>, name |-> seg(1), index |-> 0]
        /\ n = 2 =>
             /\ idpc = "ready"
             /\ gffid = [code |-> seg(1), name |-> seg(2), index |-> 0]
        /\ (n >= 3 /\ IntOfStr(seg(3)).err = "") =>
             /\ idpc = "ready"
             /\ gffid = [code |-> seg(1), name |-> seg(2),
                         index |-> IntOfStr(seg(3)).val]
        /\ (n >= 3 /\ IntOfStr(seg(3)).err # "") =>
             /\ idpc = "error"
             /\ gffid = NoGFFID

\* C13 witness: an id of four segments was parsed, the third being 2 and the
\* fourth ignored
C13_Witness ==
  /\ idpc = "ready"
  /\ NumSegments(gff_id) = 4
  /\ gffid.name = Str(<<"c">>)
  /\ gffid.index = 2

\* The id has one of the two forms of the GFFID docstring: <name> without a
\* colon, or <code>:<name>:<index> with an index int() accepts
DocumentedForm(s) ==
  \/ NumSegments(s) = 1
  \/ NumSegments(s) = 3 /\ IntOfStr(Segment(s, 3)).err = ""

\* The id is <name>, or <code>:<name>:<index> with a code that is not empty
\* and an index written as "%d" writes it: no blank, no '+', no leading
\* zero, no '-0'
CanonicalForm(s) ==
  \/ NumSegments(s) = 1
  \/ /\ NumSegments(s) = 3
     /\ Segment(s, 1) # <<>>
     /\ IntOfStr(Segment(s, 3)).err = ""
     /\ Segment(s, 3) = IntToStr(IntOfStr(Segment(s, 3)).val)

\* What str(gffid) is to be by the fields: the name alone when the code is
\* empty, code:name:index otherwise
SerializedByFields ==
  idStr[1] = IF gffid.code = <<>> THEN gffid.name
             ELSE Join(<<Ord(":")>>,
                       <<gffid.code, gffid.name, IntToStr(gffid.index)>>)

\* C14 as stated: for every id of a documented form, str(GFFID(id)) is the
\* id itself, and str() gives the name alone when the code is empty and
\* code:name:index otherwise.
C14_RoundTripDocumentedForms ==
  (idStr # <<>> /\ DocumentedForm(gff_id)) =>
    /\ idStr[1] = gff_id
    /\ SerializedByFields

\* C14 amended: str(GFFID(id)) is the id itself for every id of the form
\* <name>, or <code>:<name>:<index> with a non-empty code and the index in
\* the spelling "%d" gives it; for every id str() gives the name alone when
\* the code is empty and code:name:index otherwise.
C14_RoundTripCanonicalForms ==
  idStr # <<>> =>
    /\ CanonicalForm(gff_id) => idStr[1] = gff_id
    /\ SerializedByFields

\* C14 witness: the id 'c:c:2' was parsed and written back
C14_Witness ==
  /\ gff_id = Str(<<"c", ":", "c", ":", "2">>)
  /\ idStr = <<gff_id>>

\* The value a segment stores: the text after its first '=' when it has a
\* key, the whole segment otherwise, stripped and percent-decoded
SegValue(seg) ==
  LET i == IndexOf(seg, Ord("="))
  IN  IF SegKey(seg) = <<>> /\ i = 0 THEN Unquote(Strip(seg))
      ELSE Unquote(Strip(Slice(seg, i + 1, Len(seg))))

\* The positions among the segments of s of the segments with key k
Occurrences(s, k) ==
  {i \in 1..Len(Segments(s)) : SegKey(Segments(s)[i]) = k}

\* The keyed segments of s that are the first with their key, in order
FirstOccurrences(s) ==
  LET segs == Segments(s)
  IN  SelectSeq(
        [i \in 1..Len(segs) |-> [at |-> i, key |-> SegKey(segs[i])]],
        LAMBDA e : e.key # <<>>
                   /\ \A j \in Occurrences(s, e.key) : e.at <= j)

\* The bare tokens of s, in order
BareTokens(s) ==
  LET bare == SelectSeq(Segments(s), LAMBDA seg : SegKey(seg) = <<>>)
  IN  [i \in 1..Len(bare) |-> SegValue(bare[i])]

\* C15: when a key occurs more than once in the parsed string, the object
\* holds it once, at the position of its first occurrence among the keys,
\* with the value of its last occurrence; every other key keeps its place
\* and value, and the bare tokens are those of the string, in order.
C15_RepeatedKeyFirstPlaceLastValue ==
  (phase = "ready" /\ ~NoRepeatedKey(src)) =>
    LET firsts == FirstOccurrences(src)
        segs == Segments(src)
    IN  /\ ODKeys(attr.od) = [i \in 1..Len(firsts) |-> firsts[i].key]
        /\ \A i \in 1..Len(firsts) :
             LET occ == Occurrences(src, firsts[i].key)
                 last == CHOOSE j \in occ : \A m \in occ : m <= j
             IN  ODGetItem(attr.od, firsts[i].key)
                   = [err |-> "", val |-> SegValue(segs[last])]
        /\ attr.nokeys = BareTokens(src)

\* C15 witness: the key c occurs twice around the key Note, with different
\* values, and the object holds c first with its second value
C15_Witness ==
  /\ phase = "ready"
  /\ ODKeys(attr.od) = <<Str(<<"c">>), Str(<<"N","o","t","e">>)>>
  /\ \E i, j \in Occurrences(src, Str(<<"c">>)) :
       i < j /\ SegValue(Segments(src)[i]) # SegValue(Segments(src)[j])
  /\ ODGetItem(attr.od, Str(<<"c">>)).val = Str(<<"3">>)

\* C16 as stated: serialising with encoding on loses no content: for every
\* object reached by parsing a string and then setting and deleting keys and
\* changing the bare tokens, parsing str(object) gives the same keys in the
\* same order, the same value for each key and the same bare tokens.
C16_SerializationLosesNothing ==
  (phase = "ready" /\ attr.encode_values = PyTrue) =>
    LET again == AttrInit(Repr(attr))
    IN  /\ ODKeys(again.od) = ODKeys(attr.od)
        /\ \A key \in Range(ODKeys(attr.od)) :
             ODGetItem(again.od, key) = ODGetItem(attr.od, key)
        /\ again.nokeys = attr.nokeys

\* C17 as stated: once next() has raised StopIteration, every later call of
\* next() on the same iterator raises StopIteration again: it raises no
\* other error and yields no record, whether the iterator opened the file
\* itself or was handed an open one.
C17_ExhaustionIsStable ==
  (mode = "iterate" /\ stops >= 1) =>
    /\ iterErr = "StopIteration"
    /\ pc = "done"
    /\ Len(yielded) = Len(stream)

\* C18 as stated: while a table is built, the loop body on a pragma line
\* that is no complete '##gff-version <v>' (another directive, a bare '##',
\* '##gff-version' without a version) changes neither the version nor the
\* records and does not end the build: the loop goes on with the next line.
C18_IncompletePragmaIsSkipped ==
  [][(/\ mode = "build"
      /\ pc = "body"
      /\ TypeByPrefix(cur[1].line) = PRAGMA
      /\ ~IsVersionPragma(cur[1].line))
       => (/\ version' = version
           /\ table' = table
           /\ pc' = "loop"
           /\ iterErr' = "")]_vars

====
